---------------------------- MODULE Spec2Model ----------------------------
(***************************************************************************)
(* A model of micrograd (src/micrograd.py): the scalar autograd engine     *)
(* (Value, its operators, topological_sort, backward) and the network      *)
(* layer on top of it (Neuron, Layer, MLP, mse, zero_grad).                *)
(*                                                                         *)
(* Numbers.  A Python number is modelled as an exact rational <<n, d>>     *)
(* with d > 0 in lowest terms; float rounding is not modelled.  math.exp   *)
(* and tanh are irrational everywhere except at 0, so the model applies    *)
(* them only at 0 (MathExpDefined).  Exponents are integers.               *)
(*                                                                         *)
(* Objects.  Every Value ever constructed is an entry of the arena         *)
(* `nodes`; its index is its identity (Value defines neither __eq__ nor    *)
(* __hash__, so `in` and set() compare identities).                        *)
(***************************************************************************)
EXTENDS Integers, Sequences, FiniteSets, TLC

VARIABLES
    nodes,      \* the arena: every Value constructed so far
    expr,       \* per node: the user-level expression that returned it
    last,       \* the last operation: its kind, operands, result and error
    pre,        \* `nodes` as it was before the last operation
    order,      \* the list the last topological_sort returned
    calls,      \* the nodes whose _backward the last backward() completed
    mlp,        \* the MLP: its layers, each a list of neurons [w, b]
    preds,      \* the caller's y_pred: the network's outputs since the last mse()
    loss,       \* what the last mse() returned
    nops,       \* how many expressions the caller has evaluated
    nback,      \* how many backward passes / local rules have run
    trace       \* the backward() and zero_grad() calls so far, in order

vars == <<nodes, expr, last, pre, order, calls, mlp, preds, loss, nops, nback, trace>>

---------------------------------------------------------------------------
(* Bounds of the model. *)

MaxNodes == 4          \* Spec: Values a caller builds
MaxBackward == 1       \* Spec, SpecOps: backward passes a caller runs
MaxOpsNodes == 5       \* SpecOps
MaxOpsSteps == 1       \* SpecOps: operators a caller applies to its leaves
MaxLocalNodes == 3     \* SpecLocal
MaxLocalBackward == 2  \* SpecLocal: local rules a caller runs
MaxNetNodes == 28      \* SpecNet
MaxNetBackward == 2    \* SpecNet
MaxMag == 100          \* largest numerator and denominator of a Value's data

\* values of the leaves a caller constructs, plain numbers and exponents used
Data == {0, 2}
Nums == {0, 3}
Exps == {0, 2}
Seeds == {3}

\* SpecNet: MLP(NetSizes[1], the rest of NetSizes), the values random.uniform
\* draws for its parameters, the inputs and targets a caller passes, and the
\* number of predictions per loss
NetSizes == <<1, 1>>
ParamData == {-1, 0, 1}
NetInputs == {-1, 1}
NetTargets == {0, 1}
BatchSizes == {0, 1}

---------------------------------------------------------------------------
(* Exact rational arithmetic standing for Python's float | int. *)

Abs(n) == IF n < 0 THEN -n ELSE n

RECURSIVE GCD(_, _)
GCD(a, b) == IF b = 0 THEN a ELSE GCD(b, a % b)

Norm(n, d) ==
    LET g == GCD(Abs(n), Abs(d))
        s == IF d < 0 THEN -1 ELSE 1
    IN  <<(s * n) \div g, (s * d) \div g>>

Q(n) == <<n, 1>>
Zero == Q(0)
One == Q(1)

RAdd(x, y) == Norm(x[1] * y[2] + y[1] * x[2], x[2] * y[2])
RMul(x, y) == Norm(x[1] * y[1], x[2] * y[2])
RNeg(x) == <<-x[1], x[2]>>
RSub(x, y) == RAdd(x, RNeg(y))
RInv(x) == Norm(x[2], x[1])
RDiv(x, y) == RMul(x, RInv(y))

RECURSIVE RPowNat(_, _)
RPowNat(x, k) == IF k = 0 THEN One ELSE RMul(x, RPowNat(x, k - 1))

\* x to an integer power, where it is defined (x # 0 or p >= 0); 0 ** 0 = 1
RPow(x, p) == IF p >= 0 THEN RPowNat(x, p) ELSE RPowNat(RInv(x), -p)

Fits(x) == Abs(x[1]) <= MaxMag /\ x[2] <= MaxMag

---------------------------------------------------------------------------
(* Python operands and results of evaluating an expression. *)

N(i) == [node |-> TRUE, i |-> i, q |-> Zero]
Num(q) == [node |-> FALSE, i |-> 0, q |-> q]
None == [node |-> FALSE, i |-> 0, q |-> Zero]

\* F applied to the value of e, which is computed once
With(e, F(_)) == CHOOSE y \in {F(x) : x \in {e}} : TRUE

Ok(ns, v) == [ns |-> ns, val |-> v, err |-> ""]
Raise(ns, e) == [ns |-> ns, val |-> None, err |-> e]

\* Value.__init__: grad 0.0, a no-op _backward (op ""), _prev = set(_children).
\* a, b are the nodes the _backward closure captures as self and other (0:
\* none), p the plain exponent it captures in __pow__.
Value(ns, data, op, a, b, p) ==
    Append(ns, [data |-> data, grad |-> Zero, op |-> op,
                prev |-> {a, b} \ {0}, a |-> a, b |-> b, p |-> p])

\* math.pow(x, y) for an integer y: 0 to a negative power is a domain error
MathPowRaises(x, y) == x = Zero /\ y < 0

\* the builtin x ** y on plain numbers: 0 to a negative power
BuiltinPowRaises(x, y) == x = Zero /\ y < 0

\* the points where math.exp(x) is a rational: exp(0) = 1
MathExpDefined(x) == x = Zero
MathExp(x) == CASE x = Zero -> One

\* convert_second_param_to_Value: a plain second operand becomes a new leaf
ConvertedArena(ns, second) ==
    IF second.node THEN ns ELSE Value(ns, second.q, "", 0, 0, 0)

ConvertedSecond(ns, second) ==
    IF second.node THEN second.i ELSE Len(ns) + 1

\* Value.__add__ (decorated)
Value_add(ns, self, second) ==
    LET ns1 == ConvertedArena(ns, second)
        other == ConvertedSecond(ns, second)
        out == Value(ns1, RAdd(ns1[self].data, ns1[other].data), "+", self, other, 0)
    IN  Ok(out, N(Len(out)))

\* Value.__mul__ (decorated)
Value_mul(ns, self, second) ==
    LET ns1 == ConvertedArena(ns, second)
        other == ConvertedSecond(ns, second)
        out == Value(ns1, RMul(ns1[self].data, ns1[other].data), "*", self, other, 0)
    IN  Ok(out, N(Len(out)))

\* Value.__radd__: self + other
Value_radd(ns, self, other) == Value_add(ns, self, other)

\* Value.__rmul__: self * other
Value_rmul(ns, self, other) == Value_mul(ns, self, other)

\* Value.__neg__: -1 * self, which int hands to self.__rmul__(-1)
Value_neg(ns, self) == Value_rmul(ns, self, Num(Q(-1)))

\* a faulty __pow__ that lacks the isinstance check and reads a Value
\* exponent's data
PowOfAnything(ns, self, other) ==
    LET e == IF other.node THEN ns[other.i].data[1] ELSE other.q[1]
    IN  IF MathPowRaises(ns[self].data, e) THEN Raise(ns, "ValueError")
        ELSE LET out == Value(ns, RPow(ns[self].data, e), "**", self, 0, e)
             IN  Ok(out, N(Len(out)))

\* Value.__pow__: a node exponent is refused before anything is built; then
\* math.pow may raise; then the "**" node.  A plain exponent is an integer
\* other.q[1].
Value_pow(ns, self, other) ==
    IF other.node THEN Raise(ns, "ValueError")
    ELSE IF MathPowRaises(ns[self].data, other.q[1]) THEN Raise(ns, "ValueError")
    ELSE LET out == Value(ns, RPow(ns[self].data, other.q[1]), "**", self, 0, other.q[1])
         IN  Ok(out, N(Len(out)))

\* x + y as Python dispatches it
PyAdd(ns, x, y) ==
    IF x.node THEN Value_add(ns, x.i, y)
    ELSE IF y.node THEN Value_radd(ns, y.i, x)
    ELSE Ok(ns, Num(RAdd(x.q, y.q)))

\* x * y as Python dispatches it
PyMul(ns, x, y) ==
    IF x.node THEN Value_mul(ns, x.i, y)
    ELSE IF y.node THEN Value_rmul(ns, y.i, x)
    ELSE Ok(ns, Num(RMul(x.q, y.q)))

\* x ** y as Python dispatches it: Value.__pow__, or the builtin power of two
\* plain numbers (a plain base has no power with a Value exponent)
PyPow(ns, x, y) ==
    IF x.node THEN Value_pow(ns, x.i, y)
    ELSE IF y.node THEN Raise(ns, "TypeError")
    ELSE IF BuiltinPowRaises(x.q, y.q[1]) THEN Raise(ns, "ZeroDivisionError")
    ELSE Ok(ns, Num(RPow(x.q, y.q[1])))

\* Value.__sub__ (decorated): self + (-other)
Value_sub(ns, self, second) ==
    LET ns1 == ConvertedArena(ns, second)
        other == ConvertedSecond(ns, second)
    IN  With(Value_neg(ns1, other), LAMBDA neg : Value_add(neg.ns, self, neg.val))

\* a faulty __rsub__ that keeps the node first: self - other
SubNodeFirst(ns, self, other) == Value_sub(ns, self, other)

\* Value.__rsub__: other + (-self)
Value_rsub(ns, self, other) ==
    With(Value_neg(ns, self), LAMBDA neg : PyAdd(neg.ns, other, neg.val))

\* x - y as Python dispatches it
PySub(ns, x, y) ==
    IF x.node THEN Value_sub(ns, x.i, y)
    ELSE IF y.node THEN Value_rsub(ns, y.i, x)
    ELSE Ok(ns, Num(RSub(x.q, y.q)))

\* Value.__truediv__ (not decorated): self * other**-1
Value_truediv(ns, self, other) ==
    With(PyPow(ns, other, Num(Q(-1))),
         LAMBDA r : IF r.err # "" THEN r ELSE Value_mul(r.ns, self, r.val))

\* Value.__rtruediv__: other * self**-1
Value_rtruediv(ns, self, other) ==
    With(Value_pow(ns, self, Num(Q(-1))),
         LAMBDA r : IF r.err # "" THEN r ELSE PyMul(r.ns, other, r.val))

\* Value.exp
Value_exp(ns, self) ==
    LET out == Value(ns, MathExp(ns[self].data), "exp", self, 0, 0)
    IN  Ok(out, N(Len(out)))

\* Value.tanh: e = math.exp(2 * data); (e - 1) / (e + 1)
Value_tanh(ns, self) ==
    LET e == MathExp(RMul(Q(2), ns[self].data))
        out == Value(ns, RDiv(RSub(e, One), RAdd(e, One)), "tanh", self, 0, 0)
    IN  Ok(out, N(Len(out)))

---------------------------------------------------------------------------
(* The _backward closures and the backward engine. *)

\* a faulty `grad = d` where the closures have `grad += d`
AssignGrad(ns, i, d) == [ns EXCEPT ![i].grad = d]

\* x.grad += d
AddGrad(ns, i, d) == [ns EXCEPT ![i].grad = RAdd(@, d)]

\* the builtin self.data ** (other - 1) in __pow__'s _backward
PowRuleRaises(ns, out) == BuiltinPowRaises(ns[ns[out].a].data, ns[out].p - 1)

\* __add__._backward: self.grad += out.grad; other.grad += out.grad
AddRule(ns, out) ==
    LET ns1 == AddGrad(ns, ns[out].a, ns[out].grad)
    IN  AddGrad(ns1, ns[out].b, ns1[out].grad)

\* __mul__._backward: self.grad += other.data * out.grad;
\*                    other.grad += self.data * out.grad
MulRule(ns, out) ==
    LET ns1 == AddGrad(ns, ns[out].a, RMul(ns[ns[out].b].data, ns[out].grad))
    IN  AddGrad(ns1, ns[out].b, RMul(ns1[ns[out].a].data, ns1[out].grad))

\* __pow__._backward: self.grad += other * self.data ** (other - 1) * out.grad
PowRule(ns, out) ==
    LET self == ns[out].a
        p == ns[out].p
    IN  AddGrad(ns, self, RMul(RMul(Q(p), RPow(ns[self].data, p - 1)), ns[out].grad))

\* exp._backward: self.grad += math.exp(self.data) * out.grad
ExpRule(ns, out) ==
    LET self == ns[out].a
    IN  AddGrad(ns, self, RMul(MathExp(ns[self].data), ns[out].grad))

\* tanh._backward: self.grad += (1 - self.tanh().data ** 2) * out.grad.  The
\* Value self.tanh() builds is dropped at once and is not kept in the arena.
TanhRule(ns, out) ==
    LET self == ns[out].a
        t == Value_tanh(ns, self)
        td == t.ns[t.val.i].data
    IN  AddGrad(ns, self, RMul(RSub(One, RPow(td, 2)), ns[out].grad))

\* out._backward(): the closure the operator installed (a leaf's does nothing)
RuleRaises(ns, out) == ns[out].op = "**" /\ PowRuleRaises(ns, out)

Rule(ns, out) ==
    CASE ns[out].op = "+" -> AddRule(ns, out)
      [] ns[out].op = "*" -> MulRule(ns, out)
      [] ns[out].op = "**" -> PowRule(ns, out)
      [] ns[out].op = "exp" -> ExpRule(ns, out)
      [] ns[out].op = "tanh" -> TanhRule(ns, out)
      [] OTHER -> ns

InList(v, lst) == \E k \in 1..Len(lst) : lst[k] = v

\* topological_sort(value, sorted_list): every list it can return, one for
\* each order in which `for ch in value._prev` can iterate over the set
RECURSIVE topological_sort(_, _, _)
RECURSIVE VisitChildren(_, _, _)
topological_sort(ns, value, sorted_list) ==
    IF InList(value, sorted_list) THEN {sorted_list}
    ELSE {Append(l, value) : l \in VisitChildren(ns, ns[value].prev, sorted_list)}

VisitChildren(ns, todo, sorted_list) ==
    IF todo = {} THEN {sorted_list}
    ELSE UNION {VisitChildren(ns, todo \ {ch}, l) :
                  <<ch, l>> \in UNION {{<<c, m>> : m \in topological_sort(ns, c, sorted_list)}
                                        : c \in todo}}

Reversed(s) == [k \in 1..Len(s) |-> s[Len(s) + 1 - k]]

\* for val in values_ordered: val._backward() -- stops at the first raise
RECURSIVE RunRules(_, _, _)
RunRules(ns, todo, done) ==
    IF todo = <<>> THEN [ns |-> ns, calls |-> done, err |-> ""]
    ELSE IF RuleRaises(ns, Head(todo))
         THEN [ns |-> ns, calls |-> done, err |-> "ZeroDivisionError"]
         ELSE With(Rule(ns, Head(todo)),
                   LAMBDA ns1 : RunRules(ns1, Tail(todo), Append(done, Head(todo))))

\* Value.backward, for the list topological_sort(self, []) returned
Value_backward(ns, self, sorted) ==
    With([ns EXCEPT ![self].grad = One],
         LAMBDA seeded : RunRules(seeded, Reversed(sorted), <<>>))

---------------------------------------------------------------------------
(* The engine as a state machine: a caller builds Values (the forward      *)
(* pass), then differentiates.                                             *)

Tmp == [kind |-> "tmp", x |-> None, y |-> None]

Ids == 1..Len(nodes)
NodeOperands == {N(i) : i \in Ids}
Operands == NodeOperands \cup {Num(Q(n)) : n \in Nums}
PlainExponents == {Num(Q(p)) : p \in Exps}
Exponents == NodeOperands \cup PlainExponents \cup {Num(Q(-1))}

\* trace entries: a backward() with its root and the size of the arena then
BackwardEvent(root) == [kind |-> "backward", root |-> root, at |-> Len(nodes)]
ZeroGradEvent == [kind |-> "zero_grad", root |-> 0, at |-> 0]

Op(kind, x, y, ret, err) == [kind |-> kind, x |-> x, y |-> y, ret |-> ret, err |-> err]

\* the arena after evaluating an expression, and the record of it
Commit(cap, kind, x, y, r) ==
    /\ nback = 0
    /\ nops < cap
    /\ nops' = nops + 1
    /\ Len(r.ns) <= cap
    /\ \A i \in (Len(nodes) + 1)..Len(r.ns) : Fits(r.ns[i].data)
    /\ nodes' = r.ns
    /\ expr' = expr \o [i \in 1..(Len(r.ns) - Len(nodes)) |->
                          IF r.val.node /\ r.val.i = Len(nodes) + i
                          THEN [kind |-> kind, x |-> x, y |-> y] ELSE Tmp]
    /\ last' = Op(kind, x, y, r.val, r.err)
    /\ pre' = nodes
    /\ order' = <<>>
    /\ calls' = <<>>
    /\ UNCHANGED <<mlp, preds, loss, nback, trace>>

\* an operator applied in SpecOps, which bounds their number
Apply(kind, x, y, r) == nops < MaxOpsSteps /\ Commit(MaxOpsNodes, kind, x, y, r)

Init ==
    /\ nodes = <<>>
    /\ expr = <<>>
    /\ last = Op("init", None, None, None, "")
    /\ pre = <<>>
    /\ order = <<>>
    /\ calls = <<>>
    /\ mlp = <<>>
    /\ preds = <<>>
    /\ loss = None
    /\ nops = 0
    /\ nback = 0
    /\ trace = <<>>

\* Value(v)
NewValue(cap) ==
    \E v \in Data :
        Commit(cap, "Value", Num(Q(v)), None,
               Ok(Value(nodes, Q(v), "", 0, 0, 0), N(Len(nodes) + 1)))

\* x + y with at least one Value
DoAdd(cap, operands) ==
    \E x, y \in operands :
        (x.node \/ y.node) /\ Commit(cap, "add", x, y, PyAdd(nodes, x, y))

\* x * y
DoMul(cap, operands) ==
    \E x, y \in operands :
        (x.node \/ y.node) /\ Commit(cap, "mul", x, y, PyMul(nodes, x, y))

\* x ** y, y a plain exponent or (wrongly) a Value
DoPow(cap, exponents) ==
    \E i \in Ids, y \in exponents : Commit(cap, "pow", N(i), y, Value_pow(nodes, i, y))

\* x.exp()
DoExp(cap) ==
    \E i \in Ids : MathExpDefined(nodes[i].data)
                   /\ Commit(cap, "exp", N(i), None, Value_exp(nodes, i))

\* x.tanh()
DoTanh(cap) ==
    \E i \in Ids : MathExpDefined(RMul(Q(2), nodes[i].data))
                   /\ Commit(cap, "tanh", N(i), None, Value_tanh(nodes, i))

\* root.backward()
DoBackward(cap, roots) ==
    \E root \in roots : \E sorted \in topological_sort(nodes, root, <<>>) :
      \E r \in {Value_backward(nodes, root, sorted)} :
        /\ nback < cap
        /\ nback' = nback + 1
        /\ nodes' = r.ns
        /\ order' = sorted
        /\ calls' = r.calls
        /\ last' = Op("backward", N(root), None, None, r.err)
        /\ pre' = nodes
        /\ trace' = Append(trace, BackwardEvent(root))
        /\ UNCHANGED <<expr, mlp, preds, loss, nops>>

\* out.grad = g; out._backward()   (the tests' way to run one local rule)
DoLocalBackward(cap) ==
    \E out \in Ids, g \in Seeds :
        LET seeded == [nodes EXCEPT ![out].grad = Q(g)] IN
        /\ nback < cap
        /\ nback' = nback + 1
        /\ nodes' = IF RuleRaises(seeded, out) THEN seeded ELSE Rule(seeded, out)
        /\ last' = Op("_backward", N(out), Num(Q(g)), None,
                      IF RuleRaises(seeded, out) THEN "ZeroDivisionError" ELSE "")
        /\ pre' = seeded
        /\ order' = <<>>
        /\ calls' = <<>>
        /\ UNCHANGED <<expr, mlp, preds, loss, nops, trace>>

\* Spec: graphs of Values built with +, *, **, exp and tanh, and backward()
Next ==
    \/ NewValue(MaxNodes)
    \/ DoAdd(MaxNodes, NodeOperands)
    \/ DoMul(MaxNodes, NodeOperands)
    \/ DoPow(MaxNodes, PlainExponents)
    \/ DoExp(MaxNodes)
    \/ DoTanh(MaxNodes)
    \/ DoBackward(MaxBackward, Ids)

Spec == Init /\ [][Next]_vars

\* SpecOps: every form of the arithmetic operators, plain operands included,
\* applied to one or two leaves; backward() on the result
Leaf(v) == [data |-> Q(v), grad |-> Zero, op |-> "", prev |-> {}, a |-> 0, b |-> 0, p |-> 0]
LeafExpr(v) == [kind |-> "Value", x |-> Num(Q(v)), y |-> None]

InitOps ==
    /\ \E a, b \in Data :
          \/ nodes = <<Leaf(a)>> /\ expr = <<LeafExpr(a)>>
          \/ nodes = <<Leaf(a), Leaf(b)>> /\ expr = <<LeafExpr(a), LeafExpr(b)>>
    /\ last = Op("init", None, None, None, "")
    /\ pre = <<>>
    /\ order = <<>>
    /\ calls = <<>>
    /\ mlp = <<>>
    /\ preds = <<>>
    /\ loss = None
    /\ nops = 0
    /\ nback = 0
    /\ trace = <<>>

OpsAdd == \E x, y \in Operands : (x.node \/ y.node) /\ Apply("add", x, y, PyAdd(nodes, x, y))

OpsMul == \E x, y \in Operands : (x.node \/ y.node) /\ Apply("mul", x, y, PyMul(nodes, x, y))

OpsSub ==
    \E x, y \in Operands :
        (x.node \/ y.node) /\ Apply("sub", x, y, PySub(nodes, x, y))

OpsTrueDiv ==
    \E x, y \in Operands :
        \/ x.node /\ Apply("truediv", x, y, Value_truediv(nodes, x.i, y))
        \/ ~x.node /\ y.node /\ Apply("truediv", x, y, Value_rtruediv(nodes, y.i, x))

OpsNeg == \E i \in Ids : Apply("neg", N(i), None, Value_neg(nodes, i))

OpsPow == \E i \in Ids, y \in Exponents : Apply("pow", N(i), y, Value_pow(nodes, i, y))

NextOps ==
    \/ OpsAdd
    \/ OpsMul
    \/ OpsSub
    \/ OpsTrueDiv
    \/ OpsNeg
    \/ OpsPow
    \/ DoBackward(MaxBackward, {Len(nodes)})

SpecOps == InitOps /\ [][NextOps]_vars

\* SpecLocal: single local rules, run on seeded nodes
NextLocal ==
    \/ NewValue(MaxLocalNodes)
    \/ DoAdd(MaxLocalNodes, NodeOperands)
    \/ DoMul(MaxLocalNodes, NodeOperands)
    \/ DoPow(MaxLocalNodes, PlainExponents)
    \/ DoLocalBackward(MaxLocalBackward)

SpecLocal == Init /\ [][NextLocal]_vars


---------------------------------------------------------------------------
(* The network layer: Neuron, Layer, MLP, mse, zero_grad. *)

\* an evaluation the model does not follow: tanh off the points where it is
\* rational
Unmodelled == "unmodelled"

Min(a, b) == IF a < b THEN a ELSE b

\* dot(a, b): sum(elem1 * elem2 for elem1, elem2 in zip(a, b)); sum starts at
\* the plain number 0
RECURSIVE DotFrom(_, _, _, _, _)
DotFrom(ns, a, b, k, acc) ==
    IF k > Min(Len(a), Len(b)) THEN Ok(ns, acc)
    ELSE With(PyMul(ns, a[k], b[k]), LAMBDA prod :
         With(PyAdd(prod.ns, acc, prod.val), LAMBDA sum :
         DotFrom(sum.ns, a, b, k + 1, sum.val)))

dot(ns, a, b) == DotFrom(ns, a, b, 1, Num(Zero))

\* Neuron.__call__: act = dot(self.w, x) + self.b; act.tanh()
Neuron_call(ns, neuron, x) ==
    With(dot(ns, [k \in 1..Len(neuron.w) |-> N(neuron.w[k])], x), LAMBDA d :
    With(PyAdd(d.ns, d.val, N(neuron.b)), LAMBDA act :
    IF ~MathExpDefined(RMul(Q(2), act.ns[act.val.i].data))
    THEN Raise(act.ns, Unmodelled)
    ELSE Value_tanh(act.ns, act.val.i)))

\* Layer.__call__: [neuron(x) for neuron in self.neurons]
RECURSIVE LayerFrom(_, _, _, _, _)
LayerFrom(ns, layer, x, j, outs) ==
    IF j > Len(layer) THEN [ns |-> ns, val |-> outs, err |-> ""]
    ELSE With(Neuron_call(ns, layer[j], x), LAMBDA r :
         IF r.err # "" THEN [ns |-> r.ns, val |-> outs, err |-> r.err]
         ELSE LayerFrom(r.ns, layer, x, j + 1, Append(outs, r.val)))

Layer_call(ns, layer, x) == LayerFrom(ns, layer, x, 1, <<>>)

\* MLP.__call__: for layer in self.layers: x = layer(x); the result is the
\* list x (the caller unwraps a list of one)
RECURSIVE MLPFrom(_, _, _, _)
MLPFrom(ns, layers, x, l) ==
    IF l > Len(layers) THEN [ns |-> ns, val |-> x, err |-> ""]
    ELSE With(Layer_call(ns, layers[l], x), LAMBDA r :
         IF r.err # "" THEN r ELSE MLPFrom(r.ns, layers, r.val, l + 1))

MLP_call(ns, layers, x) == MLPFrom(ns, layers, x, 1)

\* Neuron.parameters: self.w + [self.b]
Neuron_parameters(neuron) == Append(neuron.w, neuron.b)

\* Layer.parameters: [p for neuron in self.neurons for p in neuron.parameters()]
RECURSIVE Layer_parameters(_)
Layer_parameters(layer) ==
    IF layer = <<>> THEN <<>>
    ELSE Neuron_parameters(Head(layer)) \o Layer_parameters(Tail(layer))

\* MLP.parameters: [p for layer in self.layers for p in layer.parameters()]
RECURSIVE MLP_parameters(_)
MLP_parameters(layers) ==
    IF layers = <<>> THEN <<>>
    ELSE Layer_parameters(Head(layers)) \o MLP_parameters(Tail(layers))

\* two faulty _zero_grad: one that resets every Value ever built, one that
\* resets none
ZeroEveryGrad(ns, ps) == [i \in 1..Len(ns) |-> [ns[i] EXCEPT !.grad = Zero]]

KeepGrads(ns, ps) == ns

\* _zero_grad: for p in params: p.grad = 0.0
RECURSIVE zero_grad(_, _)
zero_grad(ns, ps) ==
    IF ps = <<>> THEN ns
    ELSE With([ns EXCEPT ![Head(ps)].grad = Zero],
              LAMBDA ns1 : zero_grad(ns1, Tail(ps)))

\* MLP.zero_grad: _zero_grad(self.parameters())
MLP_zero_grad(ns, layers) == zero_grad(ns, MLP_parameters(layers))

\* mse: the list [(yp - yt) ** 2 for yt, yp in zip(y_true, y_pred)] ...
RECURSIVE MseTerms(_, _, _, _, _)
MseTerms(ns, y_true, y_pred, k, terms) ==
    IF k > Min(Len(y_true), Len(y_pred)) THEN [ns |-> ns, val |-> terms, err |-> ""]
    ELSE With(PySub(ns, y_pred[k], y_true[k]), LAMBDA d :
         With(PyPow(d.ns, d.val, Num(Q(2))), LAMBDA sq :
         MseTerms(sq.ns, y_true, y_pred, k + 1, Append(terms, sq.val))))

\* ... and its sum, which starts at the plain number 0
RECURSIVE SumFrom(_, _, _, _)
SumFrom(ns, terms, k, acc) ==
    IF k > Len(terms) THEN Ok(ns, acc)
    ELSE With(PyAdd(ns, acc, terms[k]), LAMBDA r :
         SumFrom(r.ns, terms, k + 1, r.val))

mse(ns, y_true, y_pred) ==
    With(MseTerms(ns, y_true, y_pred, 1, <<>>),
         LAMBDA t : SumFrom(t.ns, t.val, 1, Num(Zero)))

\* MLP.__init__, Layer.__init__, Neuron.__init__: the neurons of layer l take
\* NetSizes[l] inputs; each owns that many weights and a bias, built in order
RECURSIVE LayerOffset(_)
LayerOffset(l) ==
    IF l = 1 THEN 0 ELSE LayerOffset(l - 1) + NetSizes[l] * (NetSizes[l - 1] + 1)

Neuron(l, j) ==
    LET base == LayerOffset(l) + (j - 1) * (NetSizes[l] + 1)
    IN  [w |-> [k \in 1..NetSizes[l] |-> base + k], b |-> base + NetSizes[l] + 1]

Layer(l) == [j \in 1..NetSizes[l + 1] |-> Neuron(l, j)]

MLP == [l \in 1..(Len(NetSizes) - 1) |-> Layer(l)]

NumParams == LayerOffset(Len(NetSizes))

InitNet ==
    /\ \E vals \in [1..NumParams -> ParamData] :
          /\ nodes = [i \in 1..NumParams |-> Leaf(vals[i])]
          /\ expr = [i \in 1..NumParams |-> LeafExpr(vals[i])]
    /\ mlp = MLP
    /\ last = Op("init", None, None, None, "")
    /\ pre = <<>>
    /\ order = <<>>
    /\ calls = <<>>
    /\ preds = <<>>
    /\ loss = None
    /\ nops = 0
    /\ nback = 0
    /\ trace = <<>>

NetCommit(kind, x, y, r, ret) ==
    /\ r.err # Unmodelled
    /\ Len(r.ns) <= MaxNetNodes
    /\ \A i \in (Len(nodes) + 1)..Len(r.ns) : Fits(r.ns[i].data)
    /\ nodes' = r.ns
    /\ expr' = expr \o [i \in 1..(Len(r.ns) - Len(nodes)) |->
                          IF ret.node /\ ret.i = Len(nodes) + i
                          THEN [kind |-> kind, x |-> x, y |-> y] ELSE Tmp]
    /\ last' = Op(kind, x, y, ret, r.err)
    /\ pre' = nodes
    /\ order' = <<>>
    /\ calls' = <<>>
    /\ UNCHANGED <<mlp, nops, nback, trace>>

InputVectors == [1..NetSizes[1] -> {Num(Q(v)) : v \in NetInputs}]

\* y_pred.append(mlp(x)): a list of one output is unwrapped
NetCall ==
    \E x \in InputVectors : \E r \in {MLP_call(nodes, mlp, x)} :
        /\ Len(preds) + 1 \in BatchSizes
        /\ r.err = "" => Len(r.val) = 1
        /\ NetCommit("call", x, None, r, IF r.err = "" THEN r.val[1] ELSE None)
        /\ preds' = IF r.err = "" THEN Append(preds, r.val[1]) ELSE preds
        /\ loss' = loss

\* loss = mse(y_true, y_pred)
NetMse ==
    \E y_true \in [1..Len(preds) -> {Num(Q(t)) : t \in NetTargets}] :
      \E r \in {mse(nodes, y_true, preds)} :
        /\ Len(preds) \in BatchSizes
        /\ NetCommit("mse", y_true, preds, r, r.val)
        /\ loss' = r.val
        /\ preds' = <<>>

\* loss.backward(), under every order topological_sort can return; the order
\* itself is not recorded here
NetBackward ==
    /\ loss.node
    /\ nback < MaxNetBackward
    /\ \E r \in {Value_backward(nodes, loss.i, sorted) :
                    sorted \in topological_sort(nodes, loss.i, <<>>)} :
          /\ nodes' = r.ns
          /\ last' = Op("backward", loss, None, None, r.err)
    /\ nback' = nback + 1
    /\ pre' = nodes
    /\ order' = <<>>
    /\ calls' = <<>>
    /\ trace' = Append(trace, BackwardEvent(loss.i))
    /\ UNCHANGED <<expr, mlp, preds, loss, nops>>

\* mlp.zero_grad()
NetZeroGrad ==
    /\ nodes' = MLP_zero_grad(nodes, mlp)
    /\ trace' = IF trace # <<>> /\ trace[Len(trace)].kind = "zero_grad"
                THEN trace ELSE Append(trace, ZeroGradEvent)
    /\ last' = Op("zero_grad", None, None, None, "")
    /\ pre' = nodes
    /\ order' = <<>>
    /\ calls' = <<>>
    /\ UNCHANGED <<expr, mlp, preds, loss, nops, nback>>

NextNet ==
    \/ NetCall
    \/ NetMse
    \/ NetBackward
    \/ NetZeroGrad

SpecNet == InitNet /\ [][NextNet]_vars

---------------------------------------------------------------------------
(* What the operators compute, stated from calculus rather than from the   *)
(* closures: the derivative of a node's value in each operand slot, and    *)
(* the derivative of one node's value in another's as the sum over paths.  *)

\* the nodes root's value is computed from: root and, transitively, children
RECURSIVE Reachable(_, _)
Reachable(ns, root) == {root} \cup UNION {Reachable(ns, c) : c \in ns[root].prev}

\* d out / d (first operand); x ** 0 is the constant 1, of derivative 0
LocalA(ns, out) ==
    LET o == ns[out] IN
    CASE o.op = "+" -> One
      [] o.op = "*" -> ns[o.b].data
      [] o.op = "**" -> IF o.p = 0 THEN Zero
                        ELSE RMul(Q(o.p), RPow(ns[o.a].data, o.p - 1))
      [] o.op = "exp" -> o.data
      [] o.op = "tanh" -> RSub(One, RMul(o.data, o.data))
      [] OTHER -> Zero

\* d out / d (second operand)
LocalB(ns, out) ==
    LET o == ns[out] IN
    CASE o.op = "+" -> One
      [] o.op = "*" -> ns[o.a].data
      [] OTHER -> Zero

\* d u / d v: over every path from u down to v, the product of the local
\* derivatives along it, summed (an operand used twice counts twice)
RECURSIVE PathSum(_, _, _)
PathSum(ns, u, v) ==
    IF u = v THEN One
    ELSE IF u < v THEN Zero
    ELSE RAdd(IF ns[u].a = 0 THEN Zero
              ELSE RMul(LocalA(ns, u), PathSum(ns, ns[u].a, v)),
              IF ns[u].b = 0 THEN Zero
              ELSE RMul(LocalB(ns, u), PathSum(ns, ns[u].b, v)))

AllGradsZero(ns) == \A i \in 1..Len(ns) : ns[i].grad = Zero

Range(f) == {f[k] : k \in 1..Len(f)}

---------------------------------------------------------------------------
(* Properties of backward() on graphs a caller builds (Spec). *)

\* C1: with every grad 0 beforehand, after root.backward() the root's grad
\* is 1 and every node reachable from the root has grad equal to the partial
\* derivative of the root's value in that node's value, summed over all
\* paths.  Fails: a rule that raises stops the pass (see C9).
C1_BackwardComputesPartials ==
    (last.kind = "backward" /\ AllGradsZero(pre)) =>
        LET root == last.x.i IN
        /\ nodes[root].grad = One
        /\ \A v \in Reachable(nodes, root) :
               nodes[v].grad = PathSum(nodes, root, v)

\* C2: topological_sort(root) lists every node reachable from root exactly
\* once, children strictly before parents and root last; and backward()
\* runs each reachable node's rule exactly once, in the reverse of that
\* list.  The second part fails: a rule that raises stops the pass (see C9).
C2_SortedOnceAndEveryRuleRun ==
    last.kind = "backward" =>
        LET root == last.x.i IN
        /\ Range(order) = Reachable(nodes, root)
        /\ \A j, k \in 1..Len(order) : j # k => order[j] # order[k]
        /\ \A k \in 1..Len(order) : \A c \in nodes[order[k]].prev :
               \E j \in 1..(k - 1) : order[j] = c
        /\ order[Len(order)] = root
        /\ calls = Reversed(order)

\* C9: on a graph whose construction succeeded, root.backward() runs the
\* rule of every reachable node to completion and raises nothing.  Fails:
\* the rule of x ** 0 evaluates 0 ** -1 when x's data is 0.
C9_BackwardNeverRaises ==
    last.kind = "backward" =>
        /\ last.err = ""
        /\ Range(calls) = Reachable(nodes, last.x.i)

\* what does hold of C1 and C2 (kept for reference): the sort is right under
\* every iteration order, and a pass that raises nothing computes the partials
SortIsTopological ==
    last.kind = "backward" =>
        LET root == last.x.i IN
        /\ Range(order) = Reachable(nodes, root)
        /\ \A j, k \in 1..Len(order) : j # k => order[j] # order[k]
        /\ \A k \in 1..Len(order) : \A c \in nodes[order[k]].prev :
               \E j \in 1..(k - 1) : order[j] = c
        /\ order[Len(order)] = root
        /\ \E n \in 0..Len(order) : calls = SubSeq(Reversed(order), 1, n)

CompletedBackwardComputesPartials ==
    (last.kind = "backward" /\ last.err = "" /\ AllGradsZero(pre)) =>
        LET root == last.x.i IN
        /\ nodes[root].grad = One
        /\ \A v \in Reachable(nodes, root) :
               nodes[v].grad = PathSum(nodes, root, v)

---------------------------------------------------------------------------
(* Properties of one local rule (SpecLocal). *)

\* what out's rule adds to v.grad when out.grad = g, from the calculus
LocalIncrease(ns, out, g, v) ==
    RAdd(IF ns[out].a = v THEN RMul(LocalA(ns, out), g) ELSE Zero,
         IF ns[out].b = v THEN RMul(LocalB(ns, out), g) ELSE Zero)

\* C3: running only out's rule with out.grad = g adds to the operands'
\* grads: g each for a + b; b.data * g and a.data * g for a * b;
\* p * a.data^(p-1) * g for a ** p (where that power is defined); an operand
\* used twice gets both contributions.  No data, no children and no other
\* grad changes.  `pre` is the arena with out.grad = g, before the rule.
C3_LocalRuleAccumulates ==
    (last.kind = "_backward" /\ last.err = "") =>
        LET out == last.x.i
            g == last.y.q
        IN  /\ Len(nodes) = Len(pre)
            /\ \A v \in 1..Len(nodes) :
                 /\ nodes[v].grad = RAdd(pre[v].grad, LocalIncrease(pre, out, g, v))
                 /\ v \notin pre[out].prev => nodes[v].grad = pre[v].grad
                 /\ nodes[v].data = pre[v].data
                 /\ nodes[v].prev = pre[v].prev
                 /\ nodes[v].op = pre[v].op

\* a * a with a.grad already nonzero: both contributions are added to it
C3_Witness ==
    /\ last.kind = "_backward"
    /\ last.err = ""
    /\ nodes[last.x.i].op = "*"
    /\ nodes[last.x.i].a = nodes[last.x.i].b
    /\ pre[nodes[last.x.i].a].grad # Zero
    /\ nodes[nodes[last.x.i].a].data # Zero

---------------------------------------------------------------------------
(* Properties of the operators with plain operands (SpecOps). *)

\* the value of an operand before the last operation
ValueOf(ns, x) == IF x.node THEN ns[x.i].data ELSE x.q

\* C4: a / d with a zero-valued divisor d, a plain 0 or a Value whose data is
\* 0, raises ZeroDivisionError when the quotient is built, and builds
\* nothing.  Fails for a Value divisor: math.pow raises ValueError.
C4_DivisionByZeroRaises ==
    (last.kind = "truediv" /\ ValueOf(pre, last.y) = Zero) =>
        /\ last.err = "ZeroDivisionError"
        /\ nodes = pre

\* what does hold of C4: a zero divisor always raises at construction, and
\* the error is ZeroDivisionError when the divisor is the plain number 0
ZeroDivisorRaisesAtConstruction ==
    (last.kind = "truediv" /\ ValueOf(pre, last.y) = Zero) =>
        /\ last.err = IF last.y.node THEN "ValueError" ELSE "ZeroDivisionError"
        /\ nodes = pre

\* C5: a ** p with a Value exponent p raises ValueError and leaves the graph
\* as it was: no new node, no node changed.
C5_NodeExponentRefused ==
    (last.kind = "pow" /\ last.y.node) =>
        /\ last.err = "ValueError"
        /\ nodes = pre
        /\ Len(expr) = Len(nodes)

\* a Value raised to another Value, whose data would be a usable exponent
C5_Witness ==
    /\ last.kind = "pow"
    /\ last.y.node
    /\ last.y.i # last.x.i
    /\ nodes[last.y.i].data = Q(2)
    /\ last.err = "ValueError"

\* the mathematical result of x (kind) y
Arith(kind, x, y) ==
    CASE kind = "add" -> RAdd(x, y)
      [] kind = "mul" -> RMul(x, y)
      [] kind = "sub" -> RSub(x, y)
      [] kind = "truediv" -> RDiv(x, y)

\* d (x (kind) y) / d a for the one Value a among x and y, n the plain one
ArithGrad(kind, nodeFirst, a, n) ==
    CASE kind = "add" -> One
      [] kind = "mul" -> n
      [] kind = "sub" -> IF nodeFirst THEN One ELSE Q(-1)
      [] kind = "truediv" -> IF nodeFirst THEN RInv(n)
                             ELSE RNeg(RDiv(n, RMul(a, a)))

MixedKinds == {"add", "mul", "sub", "truediv"}

\* an expression of one Value and one plain number
Mixed(e) == e.kind \in MixedKinds /\ (e.x.node # e.y.node)

\* C6: for a Value a and a plain number n, n + a, a + n, n * a, a * n, n - a,
\* a - n, n / a and a / n have the value of the expression with the operands
\* in the order written; and after backward() on the result (grads 0
\* beforehand) a.grad is 1 for both sums, n for both products, -1 for n - a,
\* 1 for a - n, -n / a.data^2 for n / a and 1 / n for a / n.
C6_ReflectedOperandOrder ==
    /\ (Mixed(last) /\ last.err = "") =>
           /\ last.ret.node
           /\ nodes[last.ret.i].data =
                  Arith(last.kind, ValueOf(pre, last.x), ValueOf(pre, last.y))
    /\ (last.kind = "backward" /\ AllGradsZero(pre) /\ Mixed(expr[last.x.i])) =>
           LET e == expr[last.x.i]
               a == IF e.x.node THEN e.x.i ELSE e.y.i
               n == IF e.x.node THEN e.y.q ELSE e.x.q
           IN  nodes[a].grad = ArithGrad(e.kind, e.x.node, nodes[a].data, n)

\* backward() on n / a and on n - a, n and a.data nonzero
C6_Witness ==
    /\ last.kind = "backward"
    /\ AllGradsZero(pre)
    /\ expr[last.x.i].kind \in {"truediv", "sub"}
    /\ ~expr[last.x.i].x.node
    /\ expr[last.x.i].y.node
    /\ expr[last.x.i].x.q # Zero
    /\ nodes[expr[last.x.i].y.i].data # Zero
    /\ nodes[expr[last.x.i].y.i].grad # Zero

---------------------------------------------------------------------------
(* Properties of the network layer (SpecNet). *)

\* the identities of the Values mlp.parameters() returns
Params == Range(MLP_parameters(mlp))

\* sum over pairs of (prediction - target)^2
RECURSIVE SumSq(_, _, _, _)
SumSq(ns, y_true, y_pred, k) ==
    IF k > Len(y_pred) THEN Zero
    ELSE LET d == RSub(ns[y_pred[k].i].data, y_true[k].q)
         IN  RAdd(RMul(d, d), SumSq(ns, y_true, y_pred, k + 1))

\* C7: after zero_grad() every Value parameters() returns has grad 0, and
\* nothing else changed: the grad of every other Value, and the data,
\* children and rule of every Value, are as before the call.
C7_ZeroGradFrame ==
    last.kind = "zero_grad" =>
        /\ Len(nodes) = Len(pre)
        /\ \A v \in 1..Len(nodes) :
             /\ v \in Params => nodes[v].grad = Zero
             /\ v \notin Params => nodes[v].grad = pre[v].grad
             /\ nodes[v].data = pre[v].data
             /\ nodes[v].prev = pre[v].prev
             /\ nodes[v].op = pre[v].op

\* zero_grad() after a backward() that left gradient in a parameter and in
\* an intermediate Value
C7_Witness ==
    /\ last.kind = "zero_grad"
    /\ \E v \in Params : pre[v].grad # Zero
    /\ \E v \in 1..Len(nodes) : v \notin Params /\ nodes[v].grad # Zero

\* C8: mse(targets, predictions) returns a single Value whose data is the sum
\* over pairs of (prediction - target)^2, with every prediction among the
\* Values it is computed from.  Fails: for empty lists sum() returns its
\* start value, the plain int 0.
C8_MseReturnsNode ==
    last.kind = "mse" =>
        /\ last.ret.node
        /\ nodes[last.ret.i].data = SumSq(pre, last.x, last.y, 1)
        /\ \A k \in 1..Len(last.y) : last.y[k].i \in Reachable(nodes, last.ret.i)

\* what does hold of C8: the claim for at least one pair
MseOfNonEmpty ==
    (last.kind = "mse" /\ Len(last.y) > 0) =>
        /\ last.ret.node
        /\ nodes[last.ret.i].data = SumSq(pre, last.x, last.y, 1)
        /\ \A k \in 1..Len(last.y) : last.y[k].i \in Reachable(nodes, last.ret.i)

\* the last three gradient calls were r1.backward(); zero_grad();
\* r2.backward(), and the last of them has just returned
BackwardZeroGradBackward ==
    /\ last.kind = "backward"
    /\ Len(trace) >= 3
    /\ trace[Len(trace)].kind = "backward"
    /\ trace[Len(trace) - 1].kind = "zero_grad"
    /\ trace[Len(trace) - 2].kind = "backward"

\* C10 as stated: after loss.backward(); zero_grad(); loss.backward() on the
\* same loss, every parameter's grad is the partial derivative of the loss in
\* that parameter.  Fails: zero_grad() leaves the grads of the intermediate
\* Values, and the second pass adds to them.
C10_SameLossAgain ==
    (BackwardZeroGradBackward
       /\ trace[Len(trace) - 2].root = trace[Len(trace)].root) =>
        \A v \in Params : nodes[v].grad = PathSum(nodes, trace[Len(trace)].root, v)

\* C10 amended: after loss.backward(); zero_grad(), backward() on a loss
\* rebuilt by a new forward pass (every Value it is computed from, other than
\* the parameters, constructed after the first backward()) leaves in every
\* parameter the partial derivative of the rebuilt loss in that parameter.
C10_RebuiltLoss ==
    (BackwardZeroGradBackward
       /\ \A v \in Reachable(nodes, trace[Len(trace)].root) \ Params :
              v > trace[Len(trace) - 2].at) =>
        /\ last.err = ""
        /\ \A v \in Params : nodes[v].grad = PathSum(nodes, trace[Len(trace)].root, v)

\* the rebuilt loss has a nonzero gradient in some parameter
C10_Witness ==
    /\ BackwardZeroGradBackward
    /\ \A v \in Reachable(nodes, trace[Len(trace)].root) \ Params :
           v > trace[Len(trace) - 2].at
    /\ \E v \in Params : nodes[v].grad # Zero

============================================================================
